---- MODULE Spec2Model ----
(***************************************************************************)
(* KML Agent (src/kml_agent.py) and its Flask wrapper                      *)
(* (src/flask_server.py).                                                  *)
(*                                                                         *)
(* Python strings are sequences of one-character strings, so that strip,   *)
(* startswith, endswith, slicing and the 'in' substring test are computed  *)
(* on characters exactly as the code computes them.                        *)
(***************************************************************************)
EXTENDS Integers, Sequences, FiniteSets, TLC

VARIABLES
    pc,        \* "idle" awaiting an invocation, "batch" inside the loop of
               \* generate_kml_batch, "done" once it has answered
    request,   \* the operation last invoked and its input
    response,  \* what it answered
    calls,     \* the exchanges with the completion service it has made
    queries,   \* generate_kml_batch: the list the loop runs over
    idx,       \* generate_kml_batch: position of the loop in queries
    results,   \* generate_kml_batch: results
    failed     \* generate_kml_batch: failed

vars == <<pc, request, response, calls, queries, idx, results, failed>>

----------------------------------------------------------------------------
(* Python str primitives *)

\* str.strip() with no argument removes these from both ends
Whitespace == {" ", "\n"}

RECURSIVE lstrip(_)
lstrip(s) ==
    IF s # <<>> /\ Head(s) \in Whitespace THEN lstrip(Tail(s)) ELSE s

RECURSIVE rstrip(_)
rstrip(s) ==
    IF s # <<>> /\ s[Len(s)] \in Whitespace
    THEN rstrip(SubSeq(s, 1, Len(s) - 1))
    ELSE s

strip(s) == rstrip(lstrip(s))

startswith(s, p) == Len(s) >= Len(p) /\ SubSeq(s, 1, Len(p)) = p

endswith(s, p) ==
    Len(s) >= Len(p) /\ SubSeq(s, Len(s) - Len(p) + 1, Len(s)) = p

\* s[n:]
SliceFrom(s, n) == SubSeq(s, n + 1, Len(s))

\* s[:-n]
SliceDropLast(s, n) == SubSeq(s, 1, Len(s) - n)

\* p in s
Contains(p, s) ==
    \E i \in 0..(Len(s) - Len(p)) : SubSeq(s, i + 1, i + Len(p)) = p

----------------------------------------------------------------------------
(* String literals of src/kml_agent.py *)

XmlDecl  == <<"<", "?", "x", "m", "l">>
KmlOpen  == <<"<", "k", "m", "l">>
DocOpen  == <<"<", "D", "o", "c", "u", "m", "e", "n", "t", ">">>
DocClose == <<"<", "/", "D", "o", "c", "u", "m", "e", "n", "t", ">">>
KmlClose == <<"<", "/", "k", "m", "l", ">">>

Camera     == <<"<", "C", "a", "m", "e", "r", "a", ">">>
LookAt     == <<"<", "L", "o", "o", "k", "A", "t", ">">>
GxFlyTo    == <<"<", "g", "x", ":", "F", "l", "y", "T", "o", ">">>
Placemark  == <<"<", "P", "l", "a", "c", "e", "m", "a", "r", "k", ">">>
LineString == <<"<", "L", "i", "n", "e", "S", "t", "r", "i", "n", "g", ">">>
Polygon    == <<"<", "P", "o", "l", "y", "g", "o", "n", ">">>

required_elements == <<XmlDecl, KmlOpen, DocOpen, DocClose, KmlClose>>

content_elements ==
    <<Camera, LookAt, GxFlyTo, Placemark, LineString, Polygon>>

\* The backquote character U+0060 (the lexer does not accept it in a string)
BQ == "BACKQUOTE"

FenceXml == <<BQ, BQ, BQ, "x", "m", "l">>
Fence    == <<BQ, BQ, BQ>>

----------------------------------------------------------------------------
(* KMLAgent._is_valid_kml *)

\* for element in required_elements: if element not in kml: return False
RECURSIVE RequiredLoop(_, _)
RequiredLoop(elems, kml) ==
    IF elems = <<>> THEN TRUE
    ELSE IF ~Contains(Head(elems), kml) THEN FALSE
    ELSE RequiredLoop(Tail(elems), kml)

\* any(elem in kml for elem in [...])
RECURSIVE AnyLoop(_, _)
AnyLoop(elems, kml) ==
    IF elems = <<>> THEN FALSE
    ELSE IF Contains(Head(elems), kml) THEN TRUE
    ELSE AnyLoop(Tail(elems), kml)

\* Mutant: the check for geographic content is left out
is_valid_kml_required_only(kml) == RequiredLoop(required_elements, kml)

_is_valid_kml(kml) ==
    IF ~RequiredLoop(required_elements, kml) THEN FALSE
    ELSE IF ~AnyLoop(content_elements, kml) THEN FALSE
    ELSE TRUE

----------------------------------------------------------------------------
(* KMLAgent.generate_kml *)

\* What self.model.generate_content(...) followed by response.text gives:
\* a reply text, or an exception raised by the client library.
Text(t)   == [text |-> t]
Fault(m)  == [raised |-> m]
IsFault(o) == "raised" \in DOMAIN o

\* The outcome of a call: a returned value or a raised exception.
\* Messages are sequences of the pieces an f-string concatenates.
Return(v)     == [value |-> v]
Raise(t, m)   == [exc |-> t, msg |-> m]
IsRaise(r)    == "exc" \in DOMAIN r

\* Mutant: the text is not trimmed again once the fence is removed
CleanReplyNoFinalStrip(text) ==
    LET k0 == strip(text)
        k1 == IF startswith(k0, FenceXml) THEN SliceFrom(k0, 6) ELSE k0
        k2 == IF startswith(k1, Fence) THEN SliceFrom(k1, 3) ELSE k1
    IN  IF endswith(k2, Fence) THEN SliceDropLast(k2, 3) ELSE k2

\* lines 106-116: strip, remove the markdown fence, strip
CleanReply(text) ==
    LET k0 == strip(text)
        k1 == IF startswith(k0, FenceXml) THEN SliceFrom(k0, 6) ELSE k0
        k2 == IF startswith(k1, Fence) THEN SliceFrom(k1, 3) ELSE k1
        k3 == IF endswith(k2, Fence) THEN SliceDropLast(k2, 3) ELSE k2
    IN  strip(k3)

\* Mutant: the cleaned reply is returned without being validated
TryBlockUnchecked(outcome) ==
    IF IsFault(outcome) THEN Raise("Exception", <<outcome.raised>>)
    ELSE IF outcome.text = <<>>
    THEN Raise("Exception", <<"No response from Gemini API">>)
    ELSE Return(CleanReply(outcome.text))

\* lines 103-122: what the try block does with the service's outcome
TryBlock(outcome) ==
    IF IsFault(outcome) THEN Raise("Exception", <<outcome.raised>>)
    ELSE IF outcome.text = <<>>
    THEN Raise("Exception", <<"No response from Gemini API">>)
    ELSE LET kml == CleanReply(outcome.text)
         IN  IF ~_is_valid_kml(kml)
             THEN Raise("Exception", <<"Generated KML failed validation">>)
             ELSE Return(kml)

\* Mutant: the exception leaves generate_kml as it was raised
ExceptWrapBare(r) == r

\* lines 124-125: except Exception as e: raise Exception(f'...{str(e)}')
ExceptWrap(r) ==
    IF IsRaise(r)
    THEN Raise("Exception", <<"KML generation failed: ">> \o r.msg)
    ELSE r

\* Mutant: the call is issued a second time
generate_content_twice(prompt) == <<prompt, prompt>>

\* lines 95-101: the one self.model.generate_content(...) call; the prompts
\* it submits to the completion service
generate_content(prompt) == <<prompt>>

\* Mutant: only the empty prompt is rejected, not a whitespace-only one
agent_generate_kml_no_strip(prompt, outcome) ==
    IF prompt = <<>>
    THEN [out |-> Raise("ValueError", <<"Prompt cannot be empty">>),
          sent |-> <<>>]
    ELSE [out |-> ExceptWrap(TryBlock(outcome)),
          sent |-> generate_content(prompt)]

\* generate_kml(prompt), the service answering the given outcome if it is
\* called: the result (out) and the prompts submitted to the service (sent)
agent_generate_kml(prompt, outcome) ==
    IF prompt = <<>> \/ strip(prompt) = <<>>
    THEN [out |-> Raise("ValueError", <<"Prompt cannot be empty">>),
          sent |-> <<>>]
    ELSE [out |-> ExceptWrap(TryBlock(outcome)),
          sent |-> generate_content(prompt)]

----------------------------------------------------------------------------
(* JSON values as request.get_json() gives them to Python *)

JStr(s) == [str |-> s]
JNum(n) == [num |-> n]
JNull   == [null |-> TRUE]
JArr(a) == [arr |-> a]
JObj(f) == [obj |-> f]

IsStr(v)  == "str" \in DOMAIN v
IsNum(v)  == "num" \in DOMAIN v
IsNull(v) == "null" \in DOMAIN v
IsArr(v)  == "arr" \in DOMAIN v
IsObj(v)  == "obj" \in DOMAIN v

\* A request with no parsable JSON body
NoJson == [nojson |-> TRUE]

\* bool(v)
Truthy(v) ==
    IF IsStr(v) THEN v.str # <<>>
    ELSE IF IsNum(v) THEN v.num # 0
    ELSE IF IsArr(v) THEN v.arr # <<>>
    ELSE IF IsObj(v) THEN DOMAIN v.obj # {}
    ELSE FALSE

\* type(v).__name__
TypeName(v) ==
    IF IsStr(v) THEN "str"
    ELSE IF IsNum(v) THEN "int"
    ELSE IF IsArr(v) THEN "list"
    ELSE IF IsObj(v) THEN "dict"
    ELSE "NoneType"

DigitChar == <<"0", "1", "2", "3", "4", "5", "6", "7", "8", "9">>

\* str(v) for the values a queries array holds here
PyStr(v) ==
    IF IsStr(v) THEN v.str
    ELSE IF IsNum(v) THEN <<DigitChar[v.num + 1]>>
    ELSE <<"N", "o", "n", "e">>

\* d.get(key, default) on a dict
DictGet(d, key, default) ==
    IF key \in DOMAIN d.obj THEN d.obj[key] ELSE default

\* key in data: TRUE, FALSE, or a raised TypeError
KeyIn(key, data) ==
    IF IsObj(data) THEN Return(key \in DOMAIN data.obj)
    ELSE IF IsArr(data)
    THEN Return(\E i \in 1..Len(data.arr) : data.arr[i] = JStr(key))
    ELSE IF IsStr(data) THEN Return(Contains(key, data.str))
    ELSE Raise("TypeError",
               <<"argument of type '", TypeName(data), "' is not iterable">>)

AttributeError(v, attr) ==
    Raise("AttributeError",
          <<"'", TypeName(v), "' object has no attribute '", attr, "'">>)

QueryKey   == <<"q", "u", "e", "r", "y">>
QueriesKey == <<"q", "u", "e", "r", "i", "e", "s">>
KmlKey     == <<"k", "m", "l">>

\* request.get_json(): the parsed body; with no parsable body, None
\* or a raised HTTPException, depending on the request's content type
get_json(body) ==
    IF body = NoJson
    THEN {Return(JNull), Raise("BadRequest", <<"400 Bad Request">>)}
    ELSE {Return(body)}

\* jsonify(payload), status
Resp(status, payload) == [status |-> status, json |-> payload]

----------------------------------------------------------------------------
(* Flask views *)

\* generate_kml(): the response, and the prompts submitted to the service
generate_kml(got, outcome) ==
    IF IsRaise(got)
    THEN [resp |-> Resp(500, [error |-> got.msg]), sent |-> <<>>]
    ELSE LET data == got.value IN
    IF ~Truthy(data)
    THEN [resp |-> Resp(400, [error |-> <<"Request body must be JSON">>]),
          sent |-> <<>>]
    ELSE IF ~IsObj(data)
    THEN [resp |-> Resp(500, [error |-> AttributeError(data, "get").msg]),
          sent |-> <<>>]
    ELSE LET q == DictGet(data, QueryKey, JStr(<<>>)) IN
    IF ~IsStr(q)
    THEN [resp |-> Resp(500, [error |-> AttributeError(q, "strip").msg]),
          sent |-> <<>>]
    ELSE LET prompt == strip(q.str) IN
    IF prompt = <<>>
    THEN [resp |-> Resp(400, [error |-> <<"Query parameter is required">>]),
          sent |-> <<>>]
    ELSE LET r == agent_generate_kml(prompt, outcome) IN
    IF IsRaise(r.out)
    THEN [resp |-> Resp(500, [error |-> r.out.msg]), sent |-> r.sent]
    ELSE [resp |-> Resp(200, [kml |-> r.out.value]), sent |-> r.sent]

\* validate_kml(): the response
validate_kml(got) ==
    IF IsRaise(got) THEN Resp(500, [error |-> got.msg])
    ELSE LET data == got.value IN
    IF ~Truthy(data)
    THEN Resp(400, [error |-> <<"kml parameter is required">>])
    ELSE LET has == KeyIn(KmlKey, data) IN
    IF IsRaise(has) THEN Resp(500, [error |-> has.msg])
    ELSE IF ~has.value
    THEN Resp(400, [error |-> <<"kml parameter is required">>])
    ELSE IF ~IsObj(data)
    THEN Resp(500, [error |-> AttributeError(data, "get").msg])
    ELSE LET v == DictGet(data, KmlKey, JStr(<<>>)) IN
    IF ~IsStr(v)
    THEN Resp(500, [error |-> AttributeError(v, "strip").msg])
    ELSE LET kml == strip(v.str) IN
    Resp(200, [valid |-> _is_valid_kml(kml), length |-> Len(kml)])

\* generate_kml_batch(), lines 117-126: an early response, or the queries
\* the loop will run over
batch_head(got) ==
    IF IsRaise(got) THEN [resp |-> Resp(500, [error |-> got.msg])]
    ELSE LET data == got.value IN
    IF ~Truthy(data)
    THEN [resp |-> Resp(400, [error |-> <<"queries array is required">>])]
    ELSE LET has == KeyIn(QueriesKey, data) IN
    IF IsRaise(has) THEN [resp |-> Resp(500, [error |-> has.msg])]
    ELSE IF ~has.value
    THEN [resp |-> Resp(400, [error |-> <<"queries array is required">>])]
    ELSE IF ~IsObj(data)
    THEN [resp |-> Resp(500, [error |-> AttributeError(data, "get").msg])]
    ELSE LET qs == DictGet(data, QueriesKey, JArr(<<>>)) IN
    IF ~IsArr(qs) \/ ~Truthy(qs)
    THEN [resp |-> Resp(400,
                        [error |-> <<"queries must be a non-empty array">>])]
    ELSE [loop |-> qs.arr]

\* Mutant: a blank query is recorded as a failure instead of skipped
batch_iteration_blank_fails(item, outcome, rs, fs) ==
    LET prompt == strip(PyStr(item))
        r == agent_generate_kml(prompt, outcome)
    IN  IF IsRaise(r.out)
        THEN [results |-> rs,
              failed |-> Append(fs, [query |-> prompt, error |-> r.out.msg]),
              sent |-> r.sent]
        ELSE [results |-> Append(rs, [query |-> prompt, kml |-> r.out.value]),
              failed |-> fs,
              sent |-> r.sent]

\* generate_kml_batch(), lines 131-147: one iteration of the for loop on
\* the element `item`, from the lists rs (results) and fs (failed)
batch_iteration(item, outcome, rs, fs) ==
    LET prompt == strip(PyStr(item)) IN
    IF prompt = <<>>
    THEN [results |-> rs, failed |-> fs, sent |-> <<>>]
    ELSE LET r == agent_generate_kml(prompt, outcome) IN
    IF IsRaise(r.out)
    THEN [results |-> rs,
          failed |-> Append(fs, [query |-> prompt, error |-> r.out.msg]),
          sent |-> r.sent]
    ELSE [results |-> Append(rs, [query |-> prompt, kml |-> r.out.value]),
          failed |-> fs,
          sent |-> r.sent]

\* generate_kml_batch(), lines 151-154
batch_response(rs, fs) == Resp(200, [results |-> rs, failed |-> fs])

----------------------------------------------------------------------------
(* Inputs *)

\* longest queries array of a batch request
MaxQueries == 3

Seqs(S, n) == UNION {[1..k -> S] : k \in 0..n}

RECURSIVE Concat(_)
Concat(ss) == IF ss = <<>> THEN <<>> ELSE Head(ss) \o Concat(Tail(ss))

\* A KML document around the given content
Doc(content) ==
    Concat(<<XmlDecl, KmlOpen, <<">">>, DocOpen, content, DocClose, KmlClose>>)

AllElements == required_elements \o content_elements

\* The elements numbered in S, in the order of AllElements or reversed
RECURSIVE Pick(_, _, _)
Pick(S, i, reversed) ==
    IF i > Len(AllElements) THEN <<>>
    ELSE LET e == IF i \in S THEN AllElements[i] ELSE <<"x">>
         IN  IF reversed THEN Pick(S, i + 1, reversed) \o e
             ELSE e \o Pick(S, i + 1, reversed)

\* Texts given to _is_valid_kml: every combination of the elements
ValidatorTexts ==
    {<<>>} \cup
    {Pick(S, 1, rev) : S \in SUBSET (1..Len(AllElements)), rev \in BOOLEAN}

ReplyPrefixes ==
    {<<>>, <<"\n">>, Fence, Fence \o <<"\n">>, FenceXml, FenceXml \o <<"\n">>,
     <<" ">> \o FenceXml \o <<"\n">>,
     Fence \o <<"k", "m", "l", "\n">>}

ReplyBodies ==
    {<<>>, <<" ">>, <<"x">>, Doc(<<>>)}
    \cup {Doc(content_elements[i]) : i \in 1..Len(content_elements)}
    \cup {Pick((1..6) \ {i}, 1, FALSE) : i \in 1..5}

ReplySuffixes ==
    {<<>>, <<"\n">>, Fence, <<"\n">> \o Fence, Fence \o <<"\n", " ">>}

FaultMessages == {"503 Service Unavailable", "No response from Gemini API"}

\* What the completion service may answer to a direct call of the agent
AgentOutcomes ==
    {Fault(m) : m \in FaultMessages} \cup
    {Text(Concat(<<a, b, c>>)) :
        a \in ReplyPrefixes, b \in ReplyBodies, c \in ReplySuffixes}

AgentPrompts == {<<>>, <<" ">>, <<"\n", " ">>, <<"A">>, <<" ", "A">>}

\* What the completion service may answer to a request of the server
ServerOutcomes ==
    {Fault("503 Service Unavailable"),
     Text(<<>>),
     Text(Doc(<<>>)),
     Text(Doc(Camera)),
     Text(Concat(<<FenceXml, <<"\n">>, Doc(GxFlyTo), <<"\n">>, Fence, <<"\n">>>>))}

QueryValues == {JStr(<<"A", " ">>), JStr(<<" ">>), JNum(7)}

\* Bodies that are not an object holding the endpoint's field
MalformedBodies(key) ==
    {NoJson, JNull, JObj(<<>>), JNum(7), JStr(<<"A">>), JStr(key),
     JArr(<<JNum(7)>>), JArr(<<JStr(key)>>),
     JObj(<<"x">> :> JStr(<<"A">>))}

WrongTypes == {JNull, JNum(7), JArr(<<>>), JObj(<<>>)}

GenerateBodies ==
    MalformedBodies(QueryKey)
    \cup {JObj(QueryKey :> v) : v \in WrongTypes}
    \cup {JObj(QueryKey :> JStr(q)) :
            q \in {<<>>, <<" ">>, <<"\n", " ">>, <<"A">>, <<" ", "A", " ">>}}

BatchBodies ==
    MalformedBodies(QueriesKey)
    \cup {JObj(QueriesKey :> v) : v \in (WrongTypes \ {JArr(<<>>)})}
    \cup {JObj(QueriesKey :> JStr(<<"A">>))}
    \cup {JObj(QueriesKey :> JArr(l)) : l \in Seqs(QueryValues, MaxQueries)}

ValidateBodies ==
    MalformedBodies(KmlKey)
    \cup {JObj(KmlKey :> v) : v \in WrongTypes}
    \cup {JObj(KmlKey :> JStr(o.text)) : o \in {x \in ServerOutcomes : ~IsFault(x)}}

----------------------------------------------------------------------------
(* The state machine.  The views and the agent write no state that outlives *)
(* a request (the module-level agent is only read), so every invocation     *)
(* starts from the same idle state.                                         *)

NoRequest  == [op |-> "none"]
NoResponse == [none |-> TRUE]

Exchange(prompt, outcome) == [prompt |-> prompt, outcome |-> outcome]

\* The exchanges of one invocation that submitted the prompts `sent`
Exchanges(sent, outcome) == [i \in 1..Len(sent) |-> Exchange(sent[i], outcome)]

Init ==
    /\ pc = "idle"
    /\ request = NoRequest
    /\ response = NoResponse
    /\ calls = <<>>
    /\ queries = <<>>
    /\ idx = 0
    /\ results = <<>>
    /\ failed = <<>>

\* A direct call KMLAgent._is_valid_kml(kml)
CallIsValidKml ==
    /\ pc = "idle"
    /\ \E kml \in ValidatorTexts :
        /\ request' = [op |-> "_is_valid_kml", kml |-> kml]
        /\ response' = Return(_is_valid_kml(kml))
    /\ calls' = <<>>
    /\ pc' = "done"
    /\ UNCHANGED <<queries, idx, results, failed>>

\* A direct call agent.generate_kml(prompt)
CallGenerateKml ==
    /\ pc = "idle"
    /\ \E prompt \in AgentPrompts, outcome \in AgentOutcomes :
        LET r == agent_generate_kml(prompt, outcome) IN
        /\ request' = [op |-> "generate_kml", prompt |-> prompt]
        /\ response' = r.out
        /\ calls' = Exchanges(r.sent, outcome)
    /\ pc' = "done"
    /\ UNCHANGED <<queries, idx, results, failed>>

\* POST /generate-kml
PostGenerateKml ==
    /\ pc = "idle"
    /\ \E body \in GenerateBodies, outcome \in ServerOutcomes :
        \E got \in get_json(body) :
            LET r == generate_kml(got, outcome) IN
            /\ request' = [op |-> "/generate-kml", body |-> body]
            /\ response' = r.resp
            /\ calls' = Exchanges(r.sent, outcome)
    /\ pc' = "done"
    /\ UNCHANGED <<queries, idx, results, failed>>

\* The kml strings the last response carries
ReturnedKml ==
    IF request.op = "/generate-kml" /\ response.status = 200
    THEN {response.json.kml}
    ELSE IF request.op = "/generate-kml-batch" /\ pc = "done"
            /\ response.status = 200
    THEN {response.json.results[i].kml :
            i \in 1..Len(response.json.results)}
    ELSE {}

\* POST /validate-kml: a new request, or the client posting a kml string
\* it has just received
PostValidateKml ==
    /\ pc \in {"idle", "done"}
    /\ \E body \in IF pc = "idle" THEN ValidateBodies
                   ELSE {JObj(KmlKey :> JStr(k)) : k \in ReturnedKml} :
        \E got \in get_json(body) :
            /\ request' = [op |-> "/validate-kml", body |-> body]
            /\ response' = validate_kml(got)
    /\ calls' = <<>>
    /\ pc' = "done"
    /\ queries' = <<>>
    /\ idx' = 0
    /\ results' = <<>>
    /\ failed' = <<>>

\* POST /generate-kml-batch, up to the for loop
BatchBegin ==
    /\ pc = "idle"
    /\ \E body \in BatchBodies :
        \E got \in get_json(body) :
            LET h == batch_head(got) IN
            /\ request' = [op |-> "/generate-kml-batch", body |-> body]
            /\ calls' = <<>>
            /\ results' = <<>>
            /\ failed' = <<>>
            /\ IF "loop" \in DOMAIN h
               THEN /\ pc' = "batch"
                    /\ queries' = h.loop
                    /\ idx' = 1
                    /\ response' = NoResponse
               ELSE /\ pc' = "done"
                    /\ queries' = <<>>
                    /\ idx' = 0
                    /\ response' = h.resp

\* Mutant: the first failure ends the loop
BatchIterationAborts ==
    /\ pc = "batch"
    /\ idx <= Len(queries)
    /\ \E outcome \in ServerOutcomes :
        LET r == batch_iteration(queries[idx], outcome, results, failed) IN
        /\ results' = r.results
        /\ failed' = r.failed
        /\ calls' = calls \o Exchanges(r.sent, outcome)
        /\ idx' = IF r.failed # failed THEN Len(queries) + 1 ELSE idx + 1
    /\ UNCHANGED <<pc, request, response, queries>>

\* One iteration of the for loop
BatchIteration ==
    /\ pc = "batch"
    /\ idx <= Len(queries)
    /\ \E outcome \in ServerOutcomes :
        LET r == batch_iteration(queries[idx], outcome, results, failed) IN
        /\ results' = r.results
        /\ failed' = r.failed
        /\ calls' = calls \o Exchanges(r.sent, outcome)
    /\ idx' = idx + 1
    /\ UNCHANGED <<pc, request, response, queries>>

\* The loop is over: the response
BatchEnd ==
    /\ pc = "batch"
    /\ idx > Len(queries)
    /\ response' = batch_response(results, failed)
    /\ pc' = "done"
    /\ UNCHANGED <<request, calls, queries, idx, results, failed>>

\* The response is sent and everything the request created is discarded
Discard ==
    /\ pc = "done"
    /\ pc' = "idle"
    /\ request' = NoRequest
    /\ response' = NoResponse
    /\ calls' = <<>>
    /\ queries' = <<>>
    /\ idx' = 0
    /\ results' = <<>>
    /\ failed' = <<>>

Next ==
    \/ CallIsValidKml
    \/ CallGenerateKml
    \/ PostGenerateKml
    \/ PostValidateKml
    \/ BatchBegin
    \/ BatchIteration
    \/ BatchEnd
    \/ Discard

Spec == Init /\ [][Next]_vars

----------------------------------------------------------------------------
(* Properties *)

DirectGenerate == pc = "done" /\ request.op = "generate_kml"

\* C1: for every prompt that is non-empty after trimming and every outcome
\* of the completion service, generate_kml raises or returns a string for
\* which _is_valid_kml is true; the views hand out no other kml string.
C1_ValidOrError ==
    /\ (DirectGenerate /\ strip(request.prompt) # <<>>) =>
          \/ IsRaise(response)
          \/ /\ DOMAIN response = {"value"}
             /\ _is_valid_kml(response.value)
    /\ pc = "done" => \A k \in ReturnedKml : _is_valid_kml(k)

\* generate_kml has returned a document taken out of a fenced reply
C1_Witness ==
    /\ DirectGenerate
    /\ ~IsRaise(response)
    /\ calls # <<>>
    /\ response.value # calls[1].outcome.text
    /\ _is_valid_kml(response.value)

\* The substrings the validator's contract names
SpecRequired ==
    {<<"<", "?", "x", "m", "l">>,
     <<"<", "k", "m", "l">>,
     <<"<", "D", "o", "c", "u", "m", "e", "n", "t", ">">>,
     <<"<", "/", "D", "o", "c", "u", "m", "e", "n", "t", ">">>,
     <<"<", "/", "k", "m", "l", ">">>}

SpecContent ==
    {<<"<", "C", "a", "m", "e", "r", "a", ">">>,
     <<"<", "L", "o", "o", "k", "A", "t", ">">>,
     <<"<", "g", "x", ":", "F", "l", "y", "T", "o", ">">>,
     <<"<", "P", "l", "a", "c", "e", "m", "a", "r", "k", ">">>,
     <<"<", "L", "i", "n", "e", "S", "t", "r", "i", "n", "g", ">">>,
     <<"<", "P", "o", "l", "y", "g", "o", "n", ">">>}

HasAllRequired(t) == \A r \in SpecRequired : Contains(r, t)
HasSomeContent(t) == \E c \in SpecContent : Contains(c, t)

DirectValidate == pc = "done" /\ request.op = "_is_valid_kml"

QueryOf(req) ==
    IF /\ req.op = "/generate-kml"
       /\ IsObj(req.body)
       /\ QueryKey \in DOMAIN req.body.obj
       /\ IsStr(req.body.obj[QueryKey])
    THEN {req.body.obj[QueryKey].str}
    ELSE {}

\* C7: generate_kml with a text that is empty after trimming raises the
\* error 'Prompt cannot be empty' before any call to the completion
\* service; POST /generate-kml with an empty or whitespace-only query
\* answers 400 and does not reach the pipeline.
C7_EmptyPrompt ==
    /\ (DirectGenerate /\ strip(request.prompt) = <<>>) =>
          /\ response = Raise("ValueError", <<"Prompt cannot be empty">>)
          /\ calls = <<>>
    /\ pc = "done" =>
          \A q \in QueryOf(request) :
              strip(q) = <<>> =>
                  /\ response.status = 400
                  /\ DOMAIN response.json = {"error"}
                  /\ response.json.error # <<"Prompt cannot be empty">>
                  /\ calls = <<>>

\* generate_kml has been called with a whitespace-only prompt
C7_Witness ==
    /\ DirectGenerate
    /\ request.prompt # <<>>
    /\ strip(request.prompt) = <<>>
    /\ IsRaise(response)

\* The queries of a list that are not blank once coerced to text and
\* trimmed, as texts, in the order of the list
RECURSIVE NonBlank(_)
NonBlank(qs) ==
    IF qs = <<>> THEN <<>>
    ELSE LET t == strip(PyStr(Head(qs)))
         IN  IF t = <<>> THEN NonBlank(Tail(qs))
             ELSE <<t>> \o NonBlank(Tail(qs))

PipelineFails(e) == IsRaise(agent_generate_kml(e.prompt, e.outcome).out)
PipelineSucceeds(e) == ~PipelineFails(e)

Prompts(es) == [i \in 1..Len(es) |-> es[i].prompt]
QueriesIn(entries) == [i \in 1..Len(entries) |-> entries[i].query]

\* A batch request whose loop has run to its response
BatchDone ==
    pc = "done" /\ request.op = "/generate-kml-batch" /\ queries # <<>>

\* C3: a batch of N queries, S of them blank after coercion and trimming
\* and K of the others failing in the pipeline, answers 200 with N-S-K
\* results and K failed entries; every non-blank query is in exactly one
\* list, blank ones in neither, each list in input order.
C3_BatchLists ==
    BatchDone =>
        LET N == Len(queries)
            nb == NonBlank(queries)
            S == N - Len(nb)
            bad == SelectSeq(calls, PipelineFails)
            good == SelectSeq(calls, PipelineSucceeds)
            K == Len(bad)
        IN  /\ response.status = 200
            /\ Prompts(calls) = nb
            /\ Len(response.json.results) = N - S - K
            /\ Len(response.json.failed) = K
            /\ QueriesIn(response.json.results) = Prompts(good)
            /\ QueriesIn(response.json.failed) = Prompts(bad)

\* A batch of three queries, one blank, one succeeding, one failing
C3_Witness ==
    /\ BatchDone
    /\ Len(queries) = 3
    /\ Len(NonBlank(queries)) = 2
    /\ Len(response.json.results) = 1
    /\ Len(response.json.failed) = 1

\* C4: a failure of the pipeline on one query never aborts the batch:
\* every non-blank query after it is still submitted, and the request
\* ends with a 200 response carrying both lists.
C4_FailureIsolated ==
    /\ pc = "batch" => idx \in 1..(Len(queries) + 1)
    /\ BatchDone =>
          /\ idx = Len(queries) + 1
          /\ response.status = 200
          /\ DOMAIN response.json = {"results", "failed"}
          /\ \A i \in 1..Len(calls) :
                PipelineFails(calls[i]) =>
                    /\ Len(calls) = Len(NonBlank(queries))
                    /\ \A j \in (i + 1)..Len(NonBlank(queries)) :
                          calls[j].prompt = NonBlank(queries)[j]

\* The first query failed and a later one was still submitted
C4_Witness ==
    /\ BatchDone
    /\ Len(calls) >= 2
    /\ PipelineFails(calls[1])
    /\ response.status = 200

\* C9: no call of the completion service is repeated: generate_kml and
\* /generate-kml issue at most one, /generate-kml-batch exactly one per
\* non-blank query, in input order, and none for a blank query.
C9_NoRetry ==
    /\ DirectGenerate => Len(calls) <= 1
    /\ (pc = "done" /\ request.op = "/generate-kml") => Len(calls) <= 1
    /\ pc = "batch" =>
          Prompts(calls) = NonBlank(SubSeq(queries, 1, idx - 1))
    /\ BatchDone => Prompts(calls) = NonBlank(queries)

\* A batch with a blank query and a failed one has ended
C9_Witness ==
    /\ BatchDone
    /\ Len(NonBlank(queries)) < Len(queries)
    /\ \E i \in 1..Len(calls) : PipelineFails(calls[i])
    /\ Len(calls) = 2

\* The characters of a fence's language tag
TagChars == {"x", "m", "l", "k"}

RECURSIVE DropTag(_)
DropTag(s) ==
    IF s # <<>> /\ Head(s) \in TagChars THEN DropTag(Tail(s)) ELSE s

\* A reply that starts with a fence and ends with another one
IsFenced(text) ==
    LET t == strip(text)
    IN  Len(t) >= 2 * Len(Fence) /\ startswith(t, Fence) /\ endswith(t, Fence)

\* What lies between the opening marker with its language tag and the
\* closing marker, trimmed
InnerContent(text) ==
    LET t == strip(text)
    IN  strip(DropTag(SubSeq(t, Len(Fence) + 1, Len(t) - Len(Fence))))

\* C5: when the reply starts with a fence, with any language tag or none,
\* and ends with a fence, generate_kml returns exactly the trimmed inner
\* content of the fence.
C5_FenceStripped ==
    (DirectGenerate /\ calls # <<>> /\ ~IsRaise(response)
        /\ ~IsFault(calls[1].outcome) /\ IsFenced(calls[1].outcome.text)) =>
            response.value = InnerContent(calls[1].outcome.text)

Field(op) ==
    IF op = "/generate-kml" THEN QueryKey
    ELSE IF op = "/generate-kml-batch" THEN QueriesKey
    ELSE KmlKey

\* A body that is missing, is no object, lacks the endpoint's field, or
\* holds it with the wrong JSON type or as an empty array
Malformed(op, body) ==
    \/ body = NoJson
    \/ ~IsObj(body)
    \/ Field(op) \notin DOMAIN body.obj
    \/ LET v == body.obj[Field(op)]
       IN  IF op = "/generate-kml-batch" THEN ~IsArr(v) \/ v.arr = <<>>
           ELSE ~IsStr(v)

PostOps == {"/generate-kml", "/generate-kml-batch", "/validate-kml"}

\* C6: each POST endpoint answers a malformed body with status 400 and an
\* error payload, never 500, without invoking the generation pipeline.
C6_MalformedIs400 ==
    (pc = "done" /\ request.op \in PostOps
        /\ Malformed(request.op, request.body)) =>
            /\ response.status = 400
            /\ DOMAIN response.json = {"error"}
            /\ calls = <<>>

\* The pipeline failure an outcome of the completion service leads to
FailureKind(outcome) ==
    IF IsFault(outcome) THEN "UpstreamFailure"
    ELSE IF outcome.text = <<>> THEN "UpstreamEmpty"
    ELSE IF ~_is_valid_kml(CleanReply(outcome.text)) THEN "ValidationFailed"
    ELSE "none"

\* A /generate-kml request on which the pipeline has failed
GenerateFailed ==
    /\ pc = "done"
    /\ request.op = "/generate-kml"
    /\ calls # <<>>
    /\ FailureKind(calls[1].outcome) # "none"

\* C8 as stated: the three failure kinds yield 500 with one and the same
\* message, whichever kind occurred.
C8_SameMessage ==
    GenerateFailed =>
        /\ response.status = 500
        /\ DOMAIN response.json = {"error"}
        /\ \A o \in ServerOutcomes :
              FailureKind(o) # "none" =>
                  generate_kml(Return(request.body), o).resp.json.error
                      = response.json.error

FailureDetail(outcome) ==
    IF IsFault(outcome) THEN outcome.raised
    ELSE IF outcome.text = <<>> THEN "No response from Gemini API"
    ELSE "Generated KML failed validation"

\* C8 amended: the three failure kinds yield 500 with an error payload
\* and no kml field; the message starts with 'KML generation failed: '
\* and goes on with the text of the kind that occurred.
C8_PrefixedMessage ==
    GenerateFailed =>
        /\ response.status = 500
        /\ DOMAIN response.json = {"error"}
        /\ response.json.error =
              <<"KML generation failed: ", FailureDetail(calls[1].outcome)>>

\* /generate-kml has answered a reply that failed validation
C8_Witness ==
    /\ GenerateFailed
    /\ FailureKind(calls[1].outcome) = "ValidationFailed"
    /\ response.status = 500

\* C10: a kml string of a 200 response of /generate-kml or of a results
\* entry of /generate-kml-batch is the pipeline's cleaned text, and
\* posting it to /validate-kml answers 200 with valid = true and length
\* the length of that string.
C10_Step ==
    /\ (pc' = "done" /\ request'.op = "/generate-kml"
            /\ response'.status = 200) =>
          response'.json.kml = CleanReply(calls'[1].outcome.text)
    /\ (pc' = "done" /\ request'.op = "/generate-kml-batch" /\ queries' # <<>>) =>
          LET good == SelectSeq(calls', PipelineSucceeds)
          IN  \A i \in 1..Len(response'.json.results) :
                response'.json.results[i].kml = CleanReply(good[i].outcome.text)
    /\ \A k \in ReturnedKml :
          (request'.op = "/validate-kml"
              /\ request'.body = JObj(KmlKey :> JStr(k))) =>
                  response' = Resp(200, [valid |-> TRUE, length |-> Len(k)])

====
